---- MODULE Spec2Model ----
(***************************************************************************)
(* Model of the JSON-RPC transport of src/json.c: the session state        *)
(* (struct json_rpc_state), the send path (json-rpc-send), the shutdown    *)
(* request (json-rpc-shutdown), the dispatch loop (json-rpc) with its      *)
(* framed reader (json_rpc_callback, read_until, read_stdout) and the      *)
(* diagnostic capture buffer.  Host threads are the tasks; they run Lisp   *)
(* only while holding the host's global lock.                              *)
(***************************************************************************)
EXTENDS Integers, Sequences, FiniteSets, TLC

----------------------------------------------------------------------------
(* Bounds of the model *)

NTasks == 2          \* host threads that may call into the transport
MaxCalls == 3        \* calls of send / run-dispatch / request-shutdown
MaxFrames == 2       \* frames the child writes in the session model
MaxDiag == 1         \* diagnostic bytes the child writes in the session model
HalfCap == 2         \* half of the (scaled) diagnostic buffer capacity
MaxErrBytes == 6     \* diagnostic bytes written in the diagnostic model
ErrPipeCap == 2      \* diagnostic bytes that may wait undrained
MaxHdrDiag == 3      \* diagnostic bytes written in the header model
ClockStart == 201    \* CLOCK_REALTIME when the session starts, in units of 5 ms
MaxTicks == 2        \* advances of the clock in the timed model
MaxMembers == 2      \* members of an object, elements of an array (codec)

Tasks == 1..NTasks
NoTask == 0

----------------------------------------------------------------------------
(* Program constants *)

\* #define ERROR_BUFFER_SIZE 1024 * 1024 * 4, an even capacity, scaled down
ERROR_BUFFER_SIZE == 2 * HalfCap

NULL == "NULL"
HANDLE == "handle"
NUL == "NUL"          \* the byte 0
UNINIT == "UNINIT"    \* a byte of malloc'ed memory never written

CR == "\r"
LF == "\n"
MARKER == <<"C","o","n","t","e","n","t","-","L","e","n","g","t","h",":">>
DELIM == <<CR, LF, CR, LF>>
DigitChars == <<"0","1","2","3","4","5","6","7","8","9">>
DigitSet == {DigitChars[i] : i \in 1..10}
SpaceSet == {" ", "\t", CR, LF}

Min(a, b) == IF a < b THEN a ELSE b

----------------------------------------------------------------------------
(* Pure helpers *)

DigitVal(c) == (CHOOSE i \in 1..10 : DigitChars[i] = c) - 1

RECURSIVE DecStr(_)
DecStr(n) == IF n < 10 THEN <<DigitChars[n + 1]>>
             ELSE DecStr(n \div 10) \o <<DigitChars[(n % 10) + 1]>>

\* strstr (output, needle) != NULL
StrStr(s, needle) ==
  \E i \in 1..(Len(s) - Len(needle) + 1) :
     SubSeq(s, i, i + Len(needle) - 1) = needle

RECURSIVE SkipSpace(_)
SkipSpace(s) == IF s # <<>> /\ Head(s) \in SpaceSet THEN SkipSpace(Tail(s)) ELSE s

RECURSIVE DigitsVal(_, _)
DigitsVal(s, acc) == IF s # <<>> /\ Head(s) \in DigitSet
                     THEN DigitsVal(Tail(s), acc * 10 + DigitVal(Head(s)))
                     ELSE acc

\* strtol (data, &_end, 10): leading white space, optional sign, digits;
\* 0 when there is no digit
StrToL(s) ==
  LET r == SkipSpace(s)
  IN IF r # <<>> /\ Head(r) = "-" THEN 0 - DigitsVal(Tail(r), 0)
     ELSE IF r # <<>> /\ Head(r) = "+" THEN DigitsVal(Tail(r), 0)
     ELSE DigitsVal(r, 0)

----------------------------------------------------------------------------
(* Lisp values and JSON values *)

\* A Lisp object is <<"int", n>>, <<"str", characters>>, <<"sym", name>>,
\* <<"vec", elements>>, <<"hash", entries>> with entries <<key, value>> in
\* insertion order, <<"list", elements>> (a proper list; nil is the empty
\* one) or <<"cons", car, cdr>> (a pair whose cdr is the value of an alist
\* entry).  A character is a one-character string, or EACUTE.
EACUTE == "e-acute"   \* U+00E9, two bytes in UTF-8
XC3 == "xC3"
XA9 == "xA9"

LInt(n) == <<"int", n>>
LStr(chars) == <<"str", chars>>
LSym(name) == <<"sym", name>>
LVec(elems) == <<"vec", elems>>
LHash(entries) == <<"hash", entries>>
LList(elems) == <<"list", elems>>
LCons(a, d) == <<"cons", a, d>>
Qnil == LList(<<>>)
Qt == LSym(<<"t">>)
QCnull == LSym(<<":", "n", "u", "l", "l">>)
QCfalse == LSym(<<":", "f", "a", "l", "s", "e">>)

Range(s) == {s[i] : i \in 1..Len(s)}

NILP(x) == x = Qnil
INTEGERP(x) == x[1] = "int"
STRINGP(x) == x[1] = "str"
VECTORP(x) == x[1] = "vec"
HASH_TABLE_P(x) == x[1] = "hash"
CONSP(x) == x[1] = "cons" \/ (x[1] = "list" /\ x[2] # <<>>)
SYMBOLP(x) == x[1] = "sym" \/ NILP(x)
XCAR(x) == IF x[1] = "cons" THEN x[2] ELSE Head(x[2])
XCDR(x) == IF x[1] = "cons" THEN x[3] ELSE LList(Tail(x[2]))
SYMBOL_NAME(x) == IF NILP(x) THEN <<"n", "i", "l">> ELSE x[2]

\* Fintern: the symbol of that name; the symbol named nil is nil
Fintern(name) == IF name = <<"n", "i", "l">> THEN Qnil ELSE LSym(name)

\* json_encode: the UTF-8 bytes of a Lisp string
RECURSIVE json_encode(_)
json_encode(chars) ==
  IF chars = <<>> THEN <<>>
  ELSE (IF Head(chars) = EACUTE THEN <<XC3, XA9>> ELSE <<Head(chars)>>)
       \o json_encode(Tail(chars))

\* make_string_from_utf8 / build_string_from_utf8: the characters of UTF-8
\* bytes
RECURSIVE make_string_from_utf8(_)
make_string_from_utf8(bytes) ==
  IF bytes = <<>> THEN <<>>
  ELSE IF Len(bytes) >= 2 /\ bytes[1] = XC3 /\ bytes[2] = XA9
  THEN <<EACUTE>> \o make_string_from_utf8(SubSeq(bytes, 3, Len(bytes)))
  ELSE <<Head(bytes)>> \o make_string_from_utf8(Tail(bytes))

\* struct json_configuration
json_object_hashtable == "hash-table"
json_object_alist == "alist"
json_object_plist == "plist"
json_array_array == "array"
json_array_list == "list"

Conf(ot, at, nullo, falseo) ==
  [object_type |-> ot, array_type |-> at, null_object |-> nullo,
   false_object |-> falseo]

\* lines 1153-1154 and 1355-1356: the configuration of json-rpc-send and
\* json-rpc called without keyword arguments
DefaultConf == Conf(json_object_hashtable, json_array_array, QCnull, QCfalse)

\* A json_t is <<"null">>, <<"true">>, <<"false">>, <<"integer", n>>,
\* <<"string", bytes>>, <<"array", elements>> or <<"object", members>> with
\* members <<key bytes, value>> in insertion order.  A conversion that
\* signals yields <<"signal", error symbol>>.
JNull == <<"null">>
JTrue == <<"true">>
JFalse == <<"false">>
JInt(n) == <<"integer", n>>
JStr(bytes) == <<"string", bytes>>
JArr(elems) == <<"array", elems>>
JObj(members) == <<"object", members>>
JSignal(kind) == <<"signal", kind>>
IsSignal(j) == j[1] = "signal"
WrongType == JSignal("wrong-type-argument")

\* json_object_get (json, key_str) != NULL
json_object_get(members, key) == \E i \in 1..Len(members) : members[i][1] = key

\* json_object_set_new (json, key_str, value): the value of a key already
\* present is replaced
json_object_set_new(members, key, j) ==
  IF json_object_get(members, key)
  THEN [i \in 1..Len(members) |->
          IF members[i][1] = key THEN <<key, j>> ELSE members[i]]
  ELSE Append(members, <<key, j>>)

\* an alist or plist entry that is added whether or not its key is present
KeyAlwaysNew(members, key) == TRUE

\* line 445: only add the element if the key is not already present
KeyIsNew(members, key) == ~json_object_get(members, key)

\* a plist key that keeps its leading ":"
PlistKeyKept(key) == key

\* lines 438-443: in plists a leading ":" of the key is stripped
PlistKey(key) ==
  IF Len(key) > 1 /\ key[1] = ":" THEN Tail(key) ELSE key

RECURSIVE lisp_to_json(_, _)
RECURSIVE VecToJson(_, _, _)
RECURSIVE HashToJson(_, _, _)
RECURSIVE ListToJson(_, _, _, _)

\* lines 355-369: a vector becomes an array
VecToJson(elems, conf, acc) ==
  IF elems = <<>> THEN JArr(acc)
  ELSE LET j == lisp_to_json(Head(elems), conf)
       IN IF IsSignal(j) THEN j
          ELSE VecToJson(Tail(elems), conf, Append(acc, j))

\* lines 370-403: a hashtable becomes an object; keys must be strings
\* without embedded null, and unique once encoded
HashToJson(entries, conf, acc) ==
  IF entries = <<>> THEN JObj(acc)
  ELSE LET key == Head(entries)[1]
           value == Head(entries)[2]
       IN IF ~STRINGP(key) THEN WrongType
          ELSE LET key_str == json_encode(key[2])
               IN IF NUL \in Range(key_str) THEN WrongType
                  ELSE IF json_object_get(acc, key_str) THEN WrongType
                  ELSE LET j == lisp_to_json(value, conf)
                       IN IF IsSignal(j) THEN j
                          ELSE HashToJson(Tail(entries), conf,
                                          Append(acc, <<key_str, j>>))

\* lines 406-454: an alist or a plist becomes an object; keys must be
\* symbols, and of a repeated key the first instance is used
ListToJson(tail, is_plist, conf, acc) ==
  IF tail = <<>> THEN JObj(acc)
  ELSE IF is_plist /\ Len(tail) < 2 THEN WrongType
  ELSE IF ~is_plist /\ ~CONSP(Head(tail)) THEN WrongType
  ELSE LET key_symbol == IF is_plist THEN tail[1] ELSE XCAR(tail[1])
           value == IF is_plist THEN tail[2] ELSE XCDR(tail[1])
           rest == IF is_plist THEN SubSeq(tail, 3, Len(tail)) ELSE Tail(tail)
       IN IF ~SYMBOLP(key_symbol) THEN WrongType
          ELSE LET key == json_encode(SYMBOL_NAME(key_symbol))
                   key_str == IF is_plist THEN PlistKey(key) ELSE key
               IN IF NUL \in Range(key) THEN WrongType
                  ELSE IF ~KeyIsNew(acc, key_str)
                  THEN ListToJson(rest, is_plist, conf, acc)
                  ELSE LET j == lisp_to_json(value, conf)
                       IN IF IsSignal(j) THEN j
                          ELSE ListToJson(rest, is_plist, conf,
                                          json_object_set_new(acc, key_str, j))

\* EQ (a, b): the same object; equal symbols and equal fixnums are the same
EQ(a, b) == a = b /\ (a[1] \in {"sym", "int"} \/ NILP(a))

\* lines 481-515 and 348-461; what is no scalar, vector, hashtable or list
\* (a symbol, a dotted pair) is a wrong-type-argument
lisp_to_json(lisp, conf) ==
  IF EQ(lisp, conf.null_object) THEN JNull
  ELSE IF EQ(lisp, conf.false_object) THEN JFalse
  ELSE IF EQ(lisp, Qt) THEN JTrue
  ELSE IF INTEGERP(lisp) THEN JInt(lisp[2])
  ELSE IF STRINGP(lisp) THEN JStr(json_encode(lisp[2]))
  ELSE IF VECTORP(lisp) THEN VecToJson(lisp[2], conf, <<>>)
  ELSE IF HASH_TABLE_P(lisp) THEN HashToJson(lisp[2], conf, <<>>)
  ELSE IF NILP(lisp) THEN JObj(<<>>)
  ELSE IF lisp[1] = "list"
  THEN ListToJson(lisp[2], ~CONSP(Head(lisp[2])), conf, <<>>)
  ELSE WrongType

RECURSIVE json_to_lisp(_, _)
RECURSIVE ObjToPlist(_, _)

\* lines 899-919: keys become keywords
ObjToPlist(members, conf) ==
  IF members = <<>> THEN <<>>
  ELSE <<LSym(make_string_from_utf8(<<":">> \o Head(members)[1])),
         json_to_lisp(Head(members)[2], conf)>>
       \o ObjToPlist(Tail(members), conf)

\* lines 803-930
json_to_lisp(json, conf) ==
  CASE json[1] = "null" -> conf.null_object
    [] json[1] = "false" -> conf.false_object
    [] json[1] = "true" -> Qt
    [] json[1] = "integer" -> LInt(json[2])
    [] json[1] = "string" -> LStr(make_string_from_utf8(json[2]))
    [] json[1] = "array" ->
         LET elems == [i \in 1..Len(json[2]) |-> json_to_lisp(json[2][i], conf)]
         IN IF conf.array_type = json_array_array THEN LVec(elems)
            ELSE LList(elems)
    [] json[1] = "object" ->
         IF conf.object_type = json_object_hashtable
         THEN LHash([i \in 1..Len(json[2]) |->
                       <<LStr(make_string_from_utf8(json[2][i][1])),
                         json_to_lisp(json[2][i][2], conf)>>])
         ELSE IF conf.object_type = json_object_alist
         THEN LList([i \in 1..Len(json[2]) |->
                       LCons(Fintern(make_string_from_utf8(json[2][i][1])),
                             json_to_lisp(json[2][i][2], conf))])
         ELSE LList(ObjToPlist(json[2], conf))

\* json_dumps (json, JSON_COMPACT | JSON_ENCODE_ANY): the compact text, no
\* white space, members in insertion order, '"' and '\' escaped
QUOTE == "\""
BSLASH == "\\"

RECURSIVE DumpBytes(_)
DumpBytes(bytes) ==
  IF bytes = <<>> THEN <<>>
  ELSE (IF Head(bytes) \in {QUOTE, BSLASH} THEN <<BSLASH, Head(bytes)>>
        ELSE <<Head(bytes)>>) \o DumpBytes(Tail(bytes))

DumpString(bytes) == <<QUOTE>> \o DumpBytes(bytes) \o <<QUOTE>>

DumpInt(n) == IF n < 0 THEN <<"-">> \o DecStr(0 - n) ELSE DecStr(n)

RECURSIVE json_dumps(_)
RECURSIVE DumpElems(_)
RECURSIVE DumpMembers(_)

DumpElems(elems) ==
  IF elems = <<>> THEN <<>>
  ELSE json_dumps(Head(elems))
       \o (IF Len(elems) > 1 THEN <<",">> ELSE <<>>) \o DumpElems(Tail(elems))

DumpMembers(members) ==
  IF members = <<>> THEN <<>>
  ELSE DumpString(Head(members)[1]) \o <<":">> \o json_dumps(Head(members)[2])
       \o (IF Len(members) > 1 THEN <<",">> ELSE <<>>)
       \o DumpMembers(Tail(members))

json_dumps(json) ==
  CASE json[1] = "null" -> <<"n", "u", "l", "l">>
    [] json[1] = "true" -> <<"t", "r", "u", "e">>
    [] json[1] = "false" -> <<"f", "a", "l", "s", "e">>
    [] json[1] = "integer" -> DumpInt(json[2])
    [] json[1] = "string" -> DumpString(json[2])
    [] json[1] = "array" -> <<"[">> \o DumpElems(json[2]) \o <<"]">>
    [] json[1] = "object" -> <<"{">> \o DumpMembers(json[2]) \o <<"}">>
    [] OTHER -> <<>>

\* json_loads (text, JSON_DECODE_ANY | JSON_ALLOW_NUL, &error): a parser of
\* JSON text; a step returns <<value, rest of the text>>, or PFAIL first
PFAIL == <<"fail">>
Fails(r) == r[1] = PFAIL
StartsWith(s, p) == Len(s) >= Len(p) /\ SubSeq(s, 1, Len(p)) = p
Drop(s, n) == SubSeq(s, n + 1, Len(s))

RECURSIVE ParseString(_, _)
ParseString(s, acc) ==
  IF s = <<>> THEN <<PFAIL, <<>>>>
  ELSE IF Head(s) = QUOTE THEN <<acc, Tail(s)>>
  ELSE IF Head(s) = BSLASH
  THEN IF Len(s) >= 2 /\ s[2] \in {QUOTE, BSLASH}
       THEN ParseString(Drop(s, 2), Append(acc, s[2]))
       ELSE <<PFAIL, <<>>>>
  ELSE ParseString(Tail(s), Append(acc, Head(s)))

RECURSIVE DigitRun(_)
DigitRun(s) == IF s # <<>> /\ Head(s) \in DigitSet THEN 1 + DigitRun(Tail(s))
               ELSE 0

\* an integer: an optional '-', then digits without a leading zero
ParseInt(s) ==
  LET neg == s # <<>> /\ Head(s) = "-"
      d == IF neg THEN Tail(s) ELSE s
      n == DigitRun(d)
  IN IF n = 0 \/ (n > 1 /\ d[1] = "0") THEN <<PFAIL, <<>>>>
     ELSE <<JInt(IF neg THEN 0 - DigitsVal(d, 0) ELSE DigitsVal(d, 0)),
            Drop(d, n)>>

RECURSIVE ParseValue(_)
RECURSIVE ParseElems(_, _)
RECURSIVE ParseMembers(_, _)

\* the elements of an array, after '[' or ','
ParseElems(s, acc) ==
  LET r == ParseValue(s)
      t == SkipSpace(r[2])
  IN IF Fails(r) \/ t = <<>> THEN <<PFAIL, <<>>>>
     ELSE IF Head(t) = "," THEN ParseElems(Tail(t), Append(acc, r[1]))
     ELSE IF Head(t) = "]" THEN <<JArr(Append(acc, r[1])), Tail(t)>>
     ELSE <<PFAIL, <<>>>>

\* the members of an object, after '{' or ','
ParseMembers(s, acc) ==
  LET k == SkipSpace(s)
  IN IF k = <<>> \/ Head(k) # QUOTE THEN <<PFAIL, <<>>>>
     ELSE LET ks == ParseString(Tail(k), <<>>)
              c == SkipSpace(ks[2])
          IN IF Fails(ks) \/ c = <<>> \/ Head(c) # ":" THEN <<PFAIL, <<>>>>
             ELSE LET r == ParseValue(Tail(c))
                      t == SkipSpace(r[2])
                  IN IF Fails(r) \/ t = <<>> THEN <<PFAIL, <<>>>>
                     ELSE LET m == json_object_set_new(acc, ks[1], r[1])
                          IN IF Head(t) = "," THEN ParseMembers(Tail(t), m)
                             ELSE IF Head(t) = "}" THEN <<JObj(m), Tail(t)>>
                             ELSE <<PFAIL, <<>>>>

ParseValue(text) ==
  LET s == SkipSpace(text)
  IN IF s = <<>> THEN <<PFAIL, <<>>>>
     ELSE IF StartsWith(s, <<"n", "u", "l", "l">>) THEN <<JNull, Drop(s, 4)>>
     ELSE IF StartsWith(s, <<"t", "r", "u", "e">>) THEN <<JTrue, Drop(s, 4)>>
     ELSE IF StartsWith(s, <<"f", "a", "l", "s", "e">>)
     THEN <<JFalse, Drop(s, 5)>>
     ELSE IF Head(s) = QUOTE
     THEN LET r == ParseString(Tail(s), <<>>)
          IN IF Fails(r) THEN r ELSE <<JStr(r[1]), r[2]>>
     ELSE IF Head(s) = "["
     THEN IF StartsWith(SkipSpace(Tail(s)), <<"]">>)
          THEN <<JArr(<<>>), Tail(SkipSpace(Tail(s)))>>
          ELSE ParseElems(Tail(s), <<>>)
     ELSE IF Head(s) = "{"
     THEN IF StartsWith(SkipSpace(Tail(s)), <<"}">>)
          THEN <<JObj(<<>>), Tail(SkipSpace(Tail(s)))>>
          ELSE ParseMembers(Tail(s), <<>>)
     ELSE ParseInt(s)

\* a json_t * that is the null pointer
NOJSON == <<>>

json_loads(text) ==
  LET r == ParseValue(text)
  IN IF Fails(r) \/ SkipSpace(r[2]) # <<>> THEN NOJSON ELSE r[1]

----------------------------------------------------------------------------
(* Framing *)

\* a header that counts the characters of the payload
IsLeadByte(b) == b # XA9
FrameMsgChars(payload) ==
  MARKER \o <<" ">> \o DecStr(Len(SelectSeq(payload, IsLeadByte))) \o DELIM
         \o payload

\* a header that counts the terminating 0 byte as well
FrameMsgNul(payload) ==
  MARKER \o <<" ">> \o DecStr(Len(payload) + 1) \o DELIM \o payload

\* lines 1121-1124: size = strlen (string);
\* sprintf (msg, "Content-Length: %zu\r\n\r\n%s", size, string)
FrameMsg(payload) == MARKER \o <<" ">> \o DecStr(Len(payload)) \o DELIM \o payload

----------------------------------------------------------------------------
(* The handler's calls *)

EOF == <<"eof", 0>>
ParseErr == <<"err", 0>>
Msg(v) == <<"msg", v>>

\* a handler call that overtakes the earlier ones
DeliverFirst(q, e) == <<e>> \o q

\* CALLN (Ffuncall, callback, ...): the handler's calls in order
Deliver(q, e) == Append(q, e)

----------------------------------------------------------------------------
(* State *)

VARIABLES
  \* struct json_rpc_state
  handle,             \* state->handle: HANDLE or NULL (the closed sentinel)
  handle_mx,          \* state->handle_mx: the task holding it, or NoTask
  done,               \* state->done, the termination flag
  cancel_send,        \* state->cancel_send
  message,            \* state->message: a decoded value, or NOJSON
  error_buffer,       \* state->error_buffer, indexed 0..ERROR_BUFFER_SIZE
  error_buffer_read,  \* state->error_buffer_read, the write cursor
  \* the host
  global_lock,        \* the task holding the host's global lock, or NoTask
  pc,                 \* where each task stands
  \* locals of the calls in progress
  rpc_handle,         \* Fjson_rpc's local copy `handle' of each task
  data,               \* json_rpc_callback's scan buffer of each task
  has_to_read,        \* json_rpc_callback's has_to_read of each task
  msgbuf,             \* json_rpc_callback's msg of each task
  send_msg,           \* json_dumps of the message of a send in progress
  send_res,           \* param->res of a send in progress
  \* the child process and the handle's streams
  alive,              \* the liveness predicate of the child
  tosend,             \* payloads the child has still to frame and write
  pipe,               \* bytes written to the child's output, not yet received
  errpipe,            \* bytes written to the diagnostic stream, not yet drained
  nerr,               \* diagnostic bytes written so far
  child_in,           \* bytes written to the child's input
  stdin_room,         \* the child reads its input (a full write can complete)
  recv_cancel,        \* cancel_recv was called and not yet observed
  \* observations
  delivered,          \* the handler's calls, in order
  closes,             \* calls of handle->close on the open handle
  crashed,            \* the process died (dereference of NULL)
  asserted,           \* an assert () of the code failed
  ncalls,             \* calls made so far
  rpc_calls,          \* calls of run-dispatch so far
  wire,               \* the payloads the child set out to write (constant)
  last_send,          \* result of the last send that returned: "none", "ok", "failed"
  diag_hist,          \* all diagnostic bytes drained so far, in order
  overflows,          \* overflow events of the diagnostic buffer
  send_calls,         \* calls of handle->send made by each send in progress
  last_buf,           \* the buffer of the latest call of handle->send
  signalled,          \* calls of send that ended in an encode error
  cancel_calls,       \* calls of handle->cancel_recv so far
  \* time
  clock,              \* CLOCK_REALTIME, in units of 5 ms since the epoch
  lock_since,         \* the clock when each task went for the session mutex
  \* the codec on its own
  codec               \* a value on its way through json-serialize and back

sessVars == <<handle, handle_mx, done, cancel_send, message>>
diagVars == <<error_buffer, error_buffer_read, diag_hist, overflows>>
taskVars == <<pc, rpc_handle, data, has_to_read, msgbuf, send_msg, send_res>>
childVars == <<alive, tosend, pipe, errpipe, nerr, child_in, stdin_room,
              recv_cancel>>
obsVars == <<delivered, closes, crashed, asserted, ncalls, rpc_calls,
             wire, last_send>>
sendObs == <<send_calls, last_buf, signalled>>
auxVars == <<cancel_calls, clock, lock_since>>
sessionVars == <<sessVars, diagVars, global_lock, taskVars, childVars,
                 obsVars, sendObs, auxVars>>
vars == <<sessVars, diagVars, global_lock, taskVars, childVars, obsVars,
          sendObs, auxVars, codec>>

----------------------------------------------------------------------------
(* The diagnostic capture buffer *)

BufIndex == 0..ERROR_BUFFER_SIZE

\* recv stores the drained bytes at error_buffer + error_buffer_read
StoreDiag(buf, rd, bytes) ==
  [i \in BufIndex |-> IF rd <= i /\ i < rd + Len(bytes)
                      THEN bytes[i - rd + 1] ELSE buf[i]]

\* strcpy (error_buffer, error_buffer + ERROR_BUFFER_SIZE / 2): copies up to
\* and including the first 0 byte of the upper half.  error_buffer
\* [ERROR_BUFFER_SIZE] is never written; when the upper half holds no 0 byte
\* the copy reads it (and, if it is not 0, memory after it): whatever lands
\* at and after the midpoint is UNINIT, which lies beyond the new cursor.
StrCpyHalf(buf) ==
  LET h == ERROR_BUFFER_SIZE \div 2
      zs == {j \in 0..(h - 1) : buf[h + j] = NUL}
      n == IF zs = {} THEN h
           ELSE CHOOSE j \in zs : \A k \in zs : j <= k
  IN [i \in BufIndex |-> IF i < n THEN buf[h + i]
                         ELSE IF i = n THEN (IF zs = {} THEN UNINIT ELSE NUL)
                         ELSE buf[i]]

\* a cursor that does not move when diagnostic bytes arrive
CursorStuck(rd, n) == rd

\* a cursor that is not moved back to the midpoint at capacity
CursorNoWrap(rd, n) == rd + n

\* read_stdout, lines 1222-1231: the cursor after stderr_size bytes arrived
CursorAfter(rd, n) ==
  IF n > 0 /\ rd + n = ERROR_BUFFER_SIZE THEN ERROR_BUFFER_SIZE \div 2
  ELSE rd + n

BufferAfter(buf, rd, bytes) ==
  IF Len(bytes) > 0 /\ rd + Len(bytes) = ERROR_BUFFER_SIZE
  THEN StrCpyHalf(StoreDiag(buf, rd, bytes))
  ELSE StoreDiag(buf, rd, bytes)

\* Fjson_rpc_stderr: make_string (state->error_buffer, state->error_buffer_read)
Fjson_rpc_stderr == [i \in 1..error_buffer_read |-> error_buffer[i - 1]]

----------------------------------------------------------------------------
(* Initial states *)

\* values the caller sends, and the value the child frames as its i-th message
SendValues == {LInt(1)}
WireValue(i) == IF i % 2 = 1 THEN 7 ELSE 42
DiagBytes == {"e"}

\* the value {"id":1,"method":"ping"} as a hashtable
Ping ==
  LHash(<< <<LStr(<<"i", "d">>), LInt(1)>>,
           <<LStr(<<"m", "e", "t", "h", "o", "d">>),
             LStr(<<"p", "i", "n", "g">>)>> >>)

\* values given to json-rpc-send in the model of the send path: an integer,
\* an object, a string with a two-byte character, and a symbol, which is no
\* JSON value
SendValuesFull == {LInt(1), Ping, LStr(<<EACUTE>>), LSym(<<"a">>)}
DiagBytesFull == {NUL, "a", "b"}
DiagBytesApart == {"#", "!"}   \* bytes that occur in no frame

\* the streams the child sets out to write: up to n frames, as the sequence
\* of their payloads
Streams(n) == {[i \in 1..k |-> json_dumps(JInt(WireValue(i)))] : k \in 0..n}

\* no value is on its way through the codec
CodecIdle == [stage |-> "idle"]

\* Fjson_rpc_connection, lines 1081-1091: the state after construction
InitState ==
  /\ handle = HANDLE
  /\ handle_mx = NoTask
  /\ done = FALSE
  /\ cancel_send = FALSE
  /\ message = NOJSON
  /\ error_buffer = [i \in BufIndex |-> UNINIT]
  /\ error_buffer_read = 0
  /\ global_lock = NoTask
  /\ pc = [t \in Tasks |-> "idle"]
  /\ rpc_handle = [t \in Tasks |-> NULL]
  /\ data = [t \in Tasks |-> <<>>]
  /\ has_to_read = [t \in Tasks |-> 0]
  /\ msgbuf = [t \in Tasks |-> <<>>]
  /\ send_msg = [t \in Tasks |-> <<>>]
  /\ send_res = [t \in Tasks |-> -1]
  /\ alive = TRUE
  /\ pipe = <<>>
  /\ errpipe = <<>>
  /\ nerr = 0
  /\ child_in = <<>>
  /\ recv_cancel = FALSE
  /\ delivered = <<>>
  /\ closes = 0
  /\ crashed = FALSE
  /\ asserted = FALSE
  /\ ncalls = 0
  /\ rpc_calls = 0
  /\ last_send = "none"
  /\ diag_hist = <<>>
  /\ overflows = 0
  /\ send_calls = [t \in Tasks |-> 0]
  /\ last_buf = <<>>
  /\ signalled = 0
  /\ cancel_calls = 0
  /\ clock = ClockStart
  /\ lock_since = [t \in Tasks |-> ClockStart]

----------------------------------------------------------------------------
(* The child process and the host *)

\* the child writes its next frame to its output
ChildWrite ==
  /\ UNCHANGED <<sendObs, codec, auxVars>>
  /\ ~crashed /\ alive /\ tosend # <<>>
  /\ pipe' = pipe \o FrameMsg(Head(tosend))
  /\ tosend' = Tail(tosend)
  /\ UNCHANGED <<sessVars, diagVars, global_lock, taskVars, obsVars, alive,
                 errpipe, nerr, child_in, stdin_room, recv_cancel>>

\* a frame whose header holds the text hdr where the length should be
RawFrame(hdr, payload) == MARKER \o hdr \o DELIM \o payload

\* header texts that are no decimal number: a letter, nothing, a negative
\* number; and one that is
BadHeaders == {<<" ", "x">>, <<>>, <<" ", "-", "1">>}
GoodHeaders == {<<" ", "1">>}

\* a payload of one byte that is no JSON text
BadPayload == <<"x">>

\* the streams of the header model: a frame with one of these headers and
\* the payload 7, or a frame with a good header and a payload that is no
\* JSON text, then nothing or a well-formed frame of 42
RawStreams ==
  {<<f>> \o rest :
     f \in {RawFrame(h, json_dumps(JInt(7))) : h \in BadHeaders \cup GoodHeaders}
            \cup {RawFrame(h, BadPayload) : h \in GoodHeaders},
     rest \in {<<>>, <<FrameMsg(json_dumps(JInt(42)))>>}}

\* the child writes its next frame, given as raw bytes, to its output
ChildWriteRaw ==
  /\ UNCHANGED <<sendObs, codec, auxVars>>
  /\ ~crashed /\ alive /\ tosend # <<>>
  /\ pipe' = pipe \o Head(tosend)
  /\ tosend' = Tail(tosend)
  /\ UNCHANGED <<sessVars, diagVars, global_lock, taskVars, obsVars, alive,
                 errpipe, nerr, child_in, stdin_room, recv_cancel>>

\* where a frame may be cut short: inside the marker, inside the header,
\* inside the payload
CutPoints(frame) == {3, Len(MARKER) + 2, Len(frame) - 1}

\* the child dies while writing a frame: a proper prefix of it is written
ChildDiesWriting ==
  /\ UNCHANGED <<sendObs, codec, auxVars>>
  /\ ~crashed /\ alive /\ tosend # <<>>
  /\ \E n \in CutPoints(FrameMsg(Head(tosend))) :
       pipe' = pipe \o SubSeq(FrameMsg(Head(tosend)), 1, n)
  /\ alive' = FALSE
  /\ UNCHANGED <<sessVars, diagVars, global_lock, taskVars, obsVars, tosend,
                 errpipe, nerr, child_in, stdin_room, recv_cancel>>

\* the child writes a byte to its diagnostic stream
ChildWriteErr(b, bound) ==
  /\ UNCHANGED <<sendObs, codec, auxVars>>
  /\ ~crashed /\ alive /\ nerr < bound /\ Len(errpipe) < ErrPipeCap
  /\ errpipe' = Append(errpipe, b)
  /\ nerr' = nerr + 1
  /\ UNCHANGED <<sessVars, diagVars, global_lock, taskVars, obsVars, alive,
                 tosend, pipe, child_in, stdin_room, recv_cancel>>

\* the child exits or closes its streams: the liveness predicate turns false
ChildExit ==
  /\ UNCHANGED <<sendObs, codec, auxVars>>
  /\ ~crashed /\ alive
  /\ alive' = FALSE
  /\ UNCHANGED <<sessVars, diagVars, global_lock, taskVars, obsVars, tosend,
                 pipe, errpipe, nerr, child_in, stdin_room, recv_cancel>>

\* a host thread that is not inside the transport yields the global lock
HostYield(t) ==
  /\ UNCHANGED <<sendObs, codec, auxVars>>
  /\ ~crashed /\ pc[t] = "idle" /\ global_lock = t
  /\ global_lock' = NoTask
  /\ UNCHANGED <<sessVars, diagVars, taskVars, childVars, obsVars>>

\* a host thread runs Lisp, and so may call in, when it holds the global lock
\* or can take it
CanCall(t) ==
  /\ ~crashed /\ pc[t] = "idle" /\ global_lock \in {NoTask, t}
  /\ ncalls < MaxCalls

\* end_using_handle when state->handle is NULL: assert (state->handle) fails.
\* A build with assertions aborts the process, one with NDEBUG goes on to
\* pthread_mutex_unlock.
AssertFails ==
  /\ asserted' = TRUE
  /\ crashed' \in BOOLEAN

----------------------------------------------------------------------------
(* The handle's primitives (struct SSP_Handle) *)

\* counts a send that does not go through may return
ShortCounts(len) == {0, len - 1}

\* handle->send (handle, &cancel_send, msg, len): the whole buffer once the
\* child takes it; a short or zero count once the cancellation flag is seen
\* or the stream is closed; otherwise the call stays blocked
SendCounts(len, cancel, live, room) ==
  (IF live /\ room THEN {len} ELSE {}) \cup
  (IF cancel \/ ~live THEN ShortCounts(len) ELSE {})

RdPhases == {"rd_marker", "rd_header", "rd_payload"}

\* a callback that keeps the host's global lock while it blocks
global_lock_kept(t) == t

\* lines 1115 and 1263: release_global_lock () by the thread t that holds it
release_global_lock(t) == NoTask

\* lines 1113, 1182 and 1390: the timeouts, in units of 5 ms
SendTimeout == 1
ShutdownTimeout == 200

\* the timespec the code hands to pthread_mutex_timedlock holds the length
\* of the wait {0, 5000000} or {1, 0}; pthread_mutex_timedlock takes it as
\* an absolute time of CLOCK_REALTIME
AbsTime(since, timeout) == timeout

\* pthread_mutex_timedlock on a mutex that is held: ETIMEDOUT once the
\* clock has reached the absolute time given, a wait until then
TimedOut(abstime) == clock >= abstime

\* a mutex that stays with its holder
StillLocked(t) == t

\* pthread_mutex_unlock (&state->handle_mx) by its holder t
Unlocked(t) == NoTask

\* handle->cancel_recv (handle): unblocks one receive that is in flight
CancelRecv == \E u \in Tasks : pc[u] \in RdPhases

----------------------------------------------------------------------------
(* json-rpc-send: Fjson_rpc_send and json_rpc_send_callback *)

\* lines 1157-1162 and 1113-1116: encode, then release_global_lock
CallSend(t, v) ==
  /\ CanCall(t)
  /\ send_calls' = [send_calls EXCEPT ![t] = 0]
  /\ lock_since' = [lock_since EXCEPT ![t] = clock]
  /\ UNCHANGED <<last_buf, signalled, codec, cancel_calls, clock>>
  /\ ncalls' = ncalls + 1
  /\ ~IsSignal(lisp_to_json(v, DefaultConf))
  /\ send_msg' = [send_msg EXCEPT
                    ![t] = json_dumps(lisp_to_json(v, DefaultConf))]
  /\ send_res' = [send_res EXCEPT ![t] = -1]
  /\ global_lock' = release_global_lock(t)
  /\ pc' = [pc EXCEPT ![t] = "send_lock"]
  /\ UNCHANGED <<sessVars, diagVars, childVars, rpc_handle, data, has_to_read,
                 msgbuf, delivered, closes, crashed, asserted, rpc_calls, wire, last_send>>

\* a send that goes on to the session mutex whatever lisp_to_json returned
SendEntryAlways(message_) == "send_lock"

\* lines 1157-1162: lisp_to_json signals before json_rpc_send_callback is
\* called; the caller gets the signal and the call is over
SendEntry(message_) == IF IsSignal(message_) THEN "idle" ELSE "send_lock"

\* lines 1157: json-rpc-send of a value that lisp_to_json rejects
SendSignals(t, v) ==
  /\ CanCall(t)
  /\ IsSignal(lisp_to_json(v, DefaultConf))
  /\ ncalls' = ncalls + 1
  /\ signalled' = signalled + 1
  /\ LET message_ == lisp_to_json(v, DefaultConf)
         entry == SendEntry(message_)
     IN /\ pc' = [pc EXCEPT ![t] = entry]
        /\ global_lock' = IF entry = "idle" THEN t ELSE NoTask
        /\ send_msg' = [send_msg EXCEPT
                          ![t] = IF entry = "idle" THEN send_msg[t]
                                 ELSE json_dumps(message_)]
  /\ UNCHANGED <<sessVars, diagVars, childVars, rpc_handle, data, has_to_read,
                 msgbuf, send_res, delivered, closes, crashed, asserted,
                 rpc_calls, wire, last_send, send_calls, last_buf, codec,
                 auxVars>>

\* line 1117: can_use_handle (state, 5 ms)
SendLock(t) ==
  /\ UNCHANGED <<sendObs, codec, auxVars>>
  /\ ~crashed /\ pc[t] = "send_lock"
  /\ IF handle_mx # NoTask
     THEN \* pthread_mutex_timedlock timed out
          /\ TimedOut(AbsTime(lock_since[t], SendTimeout))
          /\ pc' = [pc EXCEPT ![t] = "send_glock"]
          /\ UNCHANGED <<handle_mx, asserted, crashed>>
     ELSE IF handle # NULL
     THEN /\ handle_mx' = t
          /\ pc' = [pc EXCEPT ![t] = "send_io"]
          /\ UNCHANGED <<asserted, crashed>>
     ELSE \* the handle is gone: end_using_handle, return 0
          /\ AssertFails
          /\ pc' = [pc EXCEPT ![t] = "send_glock"]
          /\ UNCHANGED handle_mx
  /\ UNCHANGED <<handle, done, cancel_send, message, diagVars, global_lock,
                 childVars, rpc_handle, data, has_to_read, msgbuf, send_msg,
                 send_res, delivered, closes, ncalls, rpc_calls, wire,
                 last_send>>

\* a result that takes any byte sent for a success
SendResultAny(bytes_sent, bytes_to_send) == IF bytes_sent > 0 THEN 0 ELSE -1

\* lines 1114 and 1131-1132: param->res is 0 only for the full count
SendResult(bytes_sent, bytes_to_send) ==
  IF bytes_sent = bytes_to_send THEN 0 ELSE -1

\* a send that clears the termination flag
DoneResetBySend(bytes_sent, bytes_to_send) == FALSE

\* a send that ends the session when it did not go through
DoneOnShortSend(bytes_sent, bytes_to_send) ==
  done \/ bytes_sent # bytes_to_send

\* lines 1126-1135: the outcome of the send goes to param->res and nowhere
\* else; state->done is not written
DoneAfterSend(bytes_sent, bytes_to_send) == done

\* lines 1119-1135: frame the message, one send call, end_using_handle
SendIO(t) ==
  /\ ~crashed /\ pc[t] = "send_io"
  /\ LET msg == FrameMsg(send_msg[t])
         bytes_to_send == Len(msg)
     IN \E bytes_sent \in SendCounts(bytes_to_send, cancel_send, alive, stdin_room) :
          /\ child_in' = child_in \o SubSeq(msg, 1, bytes_sent)
          /\ last_buf' = msg
          /\ done' = DoneAfterSend(bytes_sent, bytes_to_send)
          /\ send_res' = [send_res EXCEPT
                            ![t] = SendResult(bytes_sent, bytes_to_send)]
  /\ IF handle = NULL
     THEN AssertFails
     ELSE UNCHANGED <<asserted, crashed>>
  /\ send_calls' = [send_calls EXCEPT ![t] = send_calls[t] + 1]
  /\ handle_mx' = Unlocked(t)
  /\ pc' = [pc EXCEPT ![t] = "send_glock"]
  /\ UNCHANGED <<signalled, codec, auxVars>>
  /\ UNCHANGED <<handle, cancel_send, message, diagVars, global_lock,
                 alive, tosend, pipe, errpipe, nerr, stdin_room, recv_cancel,
                 rpc_handle, data, has_to_read, msgbuf, send_msg, delivered,
                 closes, ncalls, rpc_calls, wire, last_send>>

\* line 1137 and lines 1163-1167: acquire_global_lock, report the result
SendReturn(t) ==
  /\ UNCHANGED <<last_buf, signalled, codec, auxVars>>
  /\ ~crashed /\ pc[t] = "send_glock" /\ global_lock = NoTask
  /\ global_lock' = t
  /\ last_send' = IF send_res[t] < 0 THEN "failed" ELSE "ok"
  /\ pc' = [pc EXCEPT ![t] = "idle"]
  /\ send_msg' = [send_msg EXCEPT ![t] = <<>>]
  /\ send_res' = [send_res EXCEPT ![t] = -1]
  /\ send_calls' = [send_calls EXCEPT ![t] = 0]
  /\ UNCHANGED <<sessVars, diagVars, childVars, rpc_handle, data, has_to_read,
                 msgbuf, delivered, closes, crashed, asserted, ncalls,
                 rpc_calls, wire>>

----------------------------------------------------------------------------
(* json-rpc-shutdown: Fjson_rpc_shutdown *)

\* a shutdown request that leaves the cancellation flag as it is
FlagLeftAlone == cancel_send

\* line 1179: state->cancel_send = true
FlagAfterShutdown == TRUE

\* lines 1175-1182: set the cancellation flag, go for the mutex
CallShutdown(t) ==
  /\ UNCHANGED <<sendObs, codec, cancel_calls, clock>>
  /\ lock_since' = [lock_since EXCEPT ![t] = clock]
  /\ CanCall(t)
  /\ ncalls' = ncalls + 1
  /\ cancel_send' = FlagAfterShutdown
  /\ global_lock' = t
  /\ pc' = [pc EXCEPT ![t] = "sd_lock"]
  /\ UNCHANGED <<handle, handle_mx, done, message, diagVars, childVars,
                 rpc_handle, data, has_to_read, msgbuf, send_msg, send_res,
                 delivered, closes, crashed, asserted, rpc_calls,
                 wire, last_send>>

\* line 1183: can_use_handle (state, 1 s)
ShutdownLock(t) ==
  /\ UNCHANGED <<sendObs, codec, auxVars>>
  /\ ~crashed /\ pc[t] = "sd_lock"
  /\ IF handle_mx # NoTask
     THEN \* timed out: return Qnil
          /\ TimedOut(AbsTime(lock_since[t], ShutdownTimeout))
          /\ pc' = [pc EXCEPT ![t] = "idle"]
          /\ UNCHANGED <<handle_mx, asserted, crashed>>
     ELSE IF handle # NULL
     THEN /\ handle_mx' = t
          /\ pc' = [pc EXCEPT ![t] = "sd_cancel"]
          /\ UNCHANGED <<asserted, crashed>>
     ELSE \* the handle is gone: end_using_handle, return 0
          /\ AssertFails
          /\ pc' = [pc EXCEPT ![t] = "idle"]
          /\ UNCHANGED handle_mx
  /\ UNCHANGED <<handle, done, cancel_send, message, diagVars, global_lock,
                 childVars, rpc_handle, data, has_to_read, msgbuf, send_msg,
                 send_res, delivered, closes, ncalls, rpc_calls, wire,
                 last_send>>

\* lines 1185-1186: cancel_recv, end_using_handle
ShutdownCancel(t) ==
  /\ UNCHANGED <<sendObs, codec, clock, lock_since>>
  /\ ~crashed /\ pc[t] = "sd_cancel"
  /\ cancel_calls' = cancel_calls + 1
  /\ recv_cancel' = (recv_cancel \/ CancelRecv)
  /\ IF handle = NULL
     THEN AssertFails
     ELSE UNCHANGED <<asserted, crashed>>
  /\ handle_mx' = Unlocked(t)
  /\ pc' = [pc EXCEPT ![t] = "idle"]
  /\ UNCHANGED <<handle, done, cancel_send, message, diagVars, global_lock,
                 alive, tosend, pipe, errpipe, nerr, child_in, stdin_room,
                 rpc_handle, data, has_to_read, msgbuf, send_msg, send_res,
                 delivered, closes, ncalls, rpc_calls, wire, last_send>>

\* line 1089: state->pid = handle->pid, the pid of a started child (positive)
ChildPid == 1

\* Fjson_rpc_pid, line 1197: make_int (state->done ? -1 : state->pid)
Fjson_rpc_pid == IF done THEN -1 ELSE ChildPid

\* json_rpc_state_free, lines 1042-1049, run by the host's garbage
\* collector once no thread holds the connection any more: assert
\* (state->handle == NULL), then destroy the mutex and free the state
Finalize ==
  /\ ~crashed /\ \A t \in Tasks : pc[t] = "idle"
  /\ pc' = [t \in Tasks |-> "freed"]
  /\ IF handle # NULL THEN AssertFails ELSE UNCHANGED <<asserted, crashed>>
  /\ UNCHANGED <<sessVars, diagVars, global_lock, childVars, sendObs, auxVars,
                 codec, rpc_handle, data, has_to_read, msgbuf, send_msg,
                 send_res, delivered, closes, ncalls, rpc_calls, wire,
                 last_send>>

----------------------------------------------------------------------------
(* json-rpc: Fjson_rpc, json_rpc_callback, read_until, read_stdout *)

RpcPcs == {"rpc_loop", "rd_marker", "rd_header", "rd_payload", "cb_glock",
           "rpc_lock", "rpc_close"}

\* results of handle->isalive (handle) through Fjson_rpc's local pointer;
\* "crash" is a call through NULL.  A pointer to a handle that was closed
\* meanwhile dangles: the call may crash or return anything.
IsAliveResults(h) ==
  IF h = NULL THEN {"crash"}
  ELSE IF handle = NULL THEN {"crash", "true", "false"}
  ELSE {IF alive THEN "true" ELSE "false"}

\* line 1363: while (!param->done && handle->isalive (handle))
LoopResults(h) == IF done THEN {"false"} ELSE IsAliveResults(h)

\* lines 1360-1361
CallRpc(t) ==
  /\ UNCHANGED <<sendObs, codec, auxVars>>
  /\ CanCall(t)
  /\ ncalls' = ncalls + 1
  /\ rpc_calls' = rpc_calls + 1
  /\ rpc_handle' = [rpc_handle EXCEPT ![t] = handle]
  /\ global_lock' = t
  /\ pc' = [pc EXCEPT ![t] = "rpc_loop"]
  /\ UNCHANGED <<sessVars, diagVars, childVars, data, has_to_read, msgbuf,
                 send_msg, send_res, delivered, closes, crashed, asserted,
                 wire, last_send>>

\* line 1363, then either lines 1365 and 1263-1268 (enter json_rpc_callback:
\* release_global_lock, clear the scan buffer) or line 1387 (the loop is
\* left: the end-of-session call of the handler)
RpcLoop(t) ==
  /\ UNCHANGED <<sendObs, codec, cancel_calls, clock>>
  /\ ~crashed /\ pc[t] = "rpc_loop"
  /\ \E r \in LoopResults(rpc_handle[t]) :
       IF r = "crash"
       THEN /\ crashed' = TRUE
            /\ UNCHANGED <<global_lock, pc, delivered, lock_since>>
       ELSE IF r = "true"
       THEN /\ global_lock' = release_global_lock(t)
            /\ pc' = [pc EXCEPT ![t] = "rd_marker"]
            /\ UNCHANGED <<crashed, delivered, lock_since>>
       ELSE /\ delivered' = Deliver(delivered, EOF)
            /\ pc' = [pc EXCEPT ![t] = "rpc_lock"]
            /\ lock_since' = [lock_since EXCEPT ![t] = clock]
            /\ UNCHANGED <<crashed, global_lock>>
  /\ UNCHANGED <<sessVars, diagVars, childVars, rpc_handle, data, has_to_read,
                 msgbuf, send_msg, send_res, closes, asserted, ncalls,
                 rpc_calls, wire, last_send>>

RdSet(t, p, d, h, mb, m, dn, cr) ==
  /\ pc' = [pc EXCEPT ![t] = p]
  /\ data' = [data EXCEPT ![t] = d]
  /\ has_to_read' = [has_to_read EXCEPT ![t] = h]
  /\ msgbuf' = [msgbuf EXCEPT ![t] = mb]
  /\ message' = m
  /\ done' = dn
  /\ crashed' = cr

\* a zero read that leaves the termination flag alone
PrematureNoDone(t) ==
  RdSet(t, "cb_glock", <<>>, 0, <<>>, message, done, FALSE)

\* read_stdout returned 0: lines 1286, 1303, 1308 set param->done
Premature(t) ==
  RdSet(t, "cb_glock", <<>>, 0, <<>>, message, TRUE, FALSE)

\* a payload that fails to decode ends the session
DecodedOrDone(t, payload) ==
  RdSet(t, "cb_glock", <<>>, 0, <<>>,
        IF done THEN message ELSE json_loads(payload),
        done \/ json_loads(payload) = NOJSON, FALSE)

\* lines 1292-1299: decode the payload unless the session is done
Decoded(t, payload) ==
  RdSet(t, "cb_glock", <<>>, 0, <<>>,
        IF done THEN message ELSE json_loads(payload), done, FALSE)

\* (size_t) n, in a size_t scaled down to 16 bits
SizeT(n) == n % (2 ^ 16)

\* line 43
BUFFER_SIZE == 1000

\* read_until, lines 1246-1252: the byte is stored at output + read without
\* a look at the size of data[BUFFER_SIZE + 1]; a store after the end of
\* the array is undefined: the process may die of it or go on
ScanOverflow(t) ==
  pc[t] \in {"rd_marker", "rd_header"} /\ Len(data[t]) > BUFFER_SIZE

\* what json_rpc_callback does with the bytes one read_stdout call returned
Consume(t, got) ==
  \/ /\ ScanOverflow(t)
     /\ RdSet(t, pc[t], data[t], has_to_read[t], msgbuf[t], message, done,
              TRUE)
  \/ CASE pc[t] = "rd_marker" ->
            \* read_until (param, "Content-Length:", data), then memset
            LET d == data[t] \o got
            IN IF StrStr(d, MARKER)
               THEN RdSet(t, "rd_header", <<>>, 0, <<>>, message, done, FALSE)
               ELSE RdSet(t, "rd_marker", d, 0, <<>>, message, done, FALSE)
       [] pc[t] = "rd_header" ->
            \* read_until (param, "\r\n\r\n", data), then strtol
            LET d == data[t] \o got
                content_length == StrToL(d)
            IN IF ~StrStr(d, DELIM)
               THEN RdSet(t, "rd_header", d, 0, <<>>, message, done, FALSE)
               ELSE IF content_length < 0
               THEN \* (size_t) of a negative length: the buffer of
                    \* malloc (content_length + 1) is far too small (or NULL)
                    \* for the has_to_read bytes that read_stdout is asked to
                    \* store in it: the process crashes, or goes on reading
                    \/ RdSet(t, pc[t], d, 0, <<>>, message, done, TRUE)
                    \/ RdSet(t, "rd_payload", <<>>, SizeT(content_length), <<>>,
                             message, done, FALSE)
               ELSE IF content_length = 0
               THEN Decoded(t, <<>>)
               ELSE RdSet(t, "rd_payload", <<>>, content_length, <<>>, message,
                          done, FALSE)
       [] pc[t] = "rd_payload" ->
            LET mb == msgbuf[t] \o got
                left == has_to_read[t] - Len(got)
            IN IF left > 0
               THEN RdSet(t, "rd_payload", <<>>, left, mb, message, done, FALSE)
               ELSE Decoded(t, mb)

\* one handle->recv call of read_stdout (lines 1216-1235) and what its
\* caller does with the result.  recv returns the available output bytes, up
\* to size, and drains diagnostic bytes into the space offered; it blocks
\* while there is nothing to return, the child is alive and no cancel_recv
\* was issued.
RecvStep(t) ==
  /\ UNCHANGED <<sendObs, codec, auxVars>>
  /\ ~crashed /\ pc[t] \in RdPhases
  /\ IF handle = NULL
     THEN \* handle->recv through NULL
          /\ crashed' = TRUE
          /\ UNCHANGED <<pc, data, has_to_read, msgbuf, message, done,
                         diagVars, pipe, errpipe, recv_cancel>>
     ELSE LET size == IF pc[t] = "rd_payload" THEN has_to_read[t] ELSE 1
              result == Min(size, Len(pipe))
              space == ERROR_BUFFER_SIZE - error_buffer_read
          IN \E stderr_size \in 0..Min(space, Len(errpipe)) :
               /\ result > 0 \/ stderr_size > 0 \/ ~alive \/ recv_cancel
               /\ LET drained == SubSeq(errpipe, 1, stderr_size)
                  IN /\ errpipe' = SubSeq(errpipe, stderr_size + 1, Len(errpipe))
                     /\ error_buffer' = BufferAfter(error_buffer,
                                                    error_buffer_read, drained)
                     /\ error_buffer_read' = CursorAfter(error_buffer_read,
                                                         stderr_size)
                     /\ diag_hist' = diag_hist \o drained
                     /\ overflows' = IF stderr_size > 0 /\ stderr_size = space
                                     THEN overflows + 1 ELSE overflows
               /\ pipe' = SubSeq(pipe, result + 1, Len(pipe))
               /\ recv_cancel' = FALSE
               /\ IF result > 0 THEN Consume(t, SubSeq(pipe, 1, result))
                  ELSE IF alive
                  THEN \* while (read_res > 0 || handle->isalive (handle))
                       RdSet(t, pc[t], data[t], has_to_read[t], msgbuf[t],
                             message, done, FALSE)
                  ELSE Premature(t)
  /\ UNCHANGED <<handle, handle_mx, cancel_send, global_lock, rpc_handle,
                 send_msg, send_res, alive, tosend, nerr, child_in, stdin_room,
                 delivered, closes, asserted, ncalls, rpc_calls, wire,
                 last_send>>

\* line 1311 (acquire_global_lock) and lines 1367-1381: the handler's call
\* for the frame
CbReturn(t) ==
  /\ UNCHANGED <<sendObs, codec, auxVars>>
  /\ ~crashed /\ pc[t] = "cb_glock" /\ global_lock = NoTask
  /\ global_lock' = t
  /\ IF done
     THEN UNCHANGED <<delivered, message>>
     ELSE IF message # NOJSON
     THEN /\ delivered' = Deliver(delivered, Msg(json_to_lisp(message,
                                                          DefaultConf)))
          /\ message' = NOJSON
     ELSE /\ delivered' = Deliver(delivered, ParseErr)
          /\ UNCHANGED message
  /\ pc' = [pc EXCEPT ![t] = "rpc_loop"]
  /\ UNCHANGED <<handle, handle_mx, done, cancel_send, diagVars, childVars,
                 rpc_handle, data, has_to_read, msgbuf, send_msg, send_res,
                 closes, crashed, asserted, ncalls, rpc_calls, wire,
                 last_send>>

\* line 1391: pthread_mutex_timedlock (&param->handle_mx, 1 s)
RpcLock(t) ==
  /\ UNCHANGED <<sendObs, codec, auxVars>>
  /\ ~crashed /\ pc[t] = "rpc_lock"
  /\ IF handle_mx # NoTask
     THEN \* timed out: return Qnil, the handle stays as it is
          /\ TimedOut(AbsTime(lock_since[t], ShutdownTimeout))
          /\ pc' = [pc EXCEPT ![t] = "idle"]
          /\ rpc_handle' = [rpc_handle EXCEPT ![t] = NULL]
          /\ UNCHANGED handle_mx
     ELSE /\ handle_mx' = t
          /\ pc' = [pc EXCEPT ![t] = "rpc_close"]
          /\ UNCHANGED rpc_handle
  /\ UNCHANGED <<handle, done, cancel_send, message, diagVars, global_lock,
                 childVars, data, has_to_read, msgbuf, send_msg, send_res,
                 obsVars>>

\* lines 1393-1395: close, set the sentinel, unlock
RpcClose(t) ==
  /\ UNCHANGED <<sendObs, codec, auxVars>>
  /\ ~crashed /\ pc[t] = "rpc_close"
  /\ IF handle = NULL
     THEN \* param->handle->close through NULL
          /\ crashed' = TRUE
          /\ UNCHANGED <<handle, handle_mx, closes, pc, rpc_handle>>
     ELSE /\ closes' = closes + 1
          /\ handle' = NULL
          /\ handle_mx' = Unlocked(t)
          /\ pc' = [pc EXCEPT ![t] = "idle"]
          /\ rpc_handle' = [rpc_handle EXCEPT ![t] = NULL]
          /\ UNCHANGED crashed
  /\ UNCHANGED <<done, cancel_send, message, diagVars, global_lock, childVars,
                 data, has_to_read, msgbuf, send_msg, send_res, delivered,
                 asserted, ncalls, rpc_calls, wire, last_send>>

----------------------------------------------------------------------------
(* Specifications *)

TaskStep(t) ==
  \/ SendLock(t) \/ SendIO(t) \/ SendReturn(t)
  \/ ShutdownLock(t) \/ ShutdownCancel(t)
  \/ RpcLoop(t) \/ RecvStep(t) \/ CbReturn(t) \/ RpcLock(t) \/ RpcClose(t)
  \/ HostYield(t)

\* run-dispatch is called while no other run of the loop is in progress
RunDispatch(t) ==
  /\ \A u \in Tasks : pc[u] \notin RpcPcs
  /\ CallRpc(t)

Call(t) ==
  \/ \E v \in SendValues : CallSend(t, v)
  \/ CallShutdown(t)
  \/ RunDispatch(t)

\* The session and its locking discipline: all the calls from all the
\* threads, over a child that writes nothing before it exits
Init ==
  /\ InitState
  /\ codec = CodecIdle
  /\ wire = <<>>
  /\ tosend = <<>>
  /\ stdin_room \in BOOLEAN

Next ==
  \/ \E t \in Tasks : Call(t)
  \/ \E t \in Tasks : TaskStep(t)
  \/ ChildExit

Spec == Init /\ [][Next]_vars

\* the scheduling of the host: a thread that can take a step of a call in
\* progress, or yield the global lock, eventually does
FairSpec == Spec /\ \A t \in Tasks : WF_vars(TaskStep(t))

\* time passes: by the length of a send's timeout or of a shutdown's
TicksIn(elapsed) == (elapsed \div ShutdownTimeout) + (elapsed % ShutdownTimeout)

Tick ==
  /\ ~crashed /\ TicksIn(clock - ClockStart) < MaxTicks
  /\ \E d \in {SendTimeout, ShutdownTimeout} : clock' = clock + d
  /\ UNCHANGED <<sessVars, diagVars, global_lock, taskVars, childVars,
                 obsVars, sendObs, cancel_calls, lock_since, codec>>

\* The session with its clock: the calls of all the threads while time
\* passes
NextTimed == Next \/ Tick

SpecTimed == Init /\ [][NextTimed]_vars

\* The session up to the end of its life: the calls of all the threads,
\* then the finalizer of the connection
NextFree == Next \/ Finalize

SpecFree == Init /\ [][NextFree]_vars

\* The scan buffer: one run of the dispatch loop over a child that writes
\* more bytes than the scan buffer holds before the marker, or between the
\* marker and the delimiter
ScanStreams ==
  {<<[i \in 1..(BUFFER_SIZE + 2) |-> "x"] \o FrameMsg(json_dumps(JInt(7)))>>,
   <<RawFrame([i \in 1..(BUFFER_SIZE + 2) |-> "x"], json_dumps(JInt(7)))>>}

InitScan ==
  /\ InitState
  /\ codec = CodecIdle
  /\ wire \in ScanStreams
  /\ tosend = wire
  /\ stdin_room = TRUE

NextScan ==
  \/ RunDispatch(1)
  \/ RpcLoop(1) \/ RecvStep(1) \/ CbReturn(1) \/ RpcLock(1) \/ RpcClose(1)
  \/ ChildWriteRaw
  \/ ChildExit

SpecScan == InitScan /\ [][NextScan]_vars

\* The framed reader and the dispatch loop: run-dispatch and
\* request-shutdown from all the threads, over a child that writes frames
\* and diagnostic bytes, exits, or dies inside a frame
InitFrame ==
  /\ InitState
  /\ codec = CodecIdle
  /\ wire \in Streams(MaxFrames)
  /\ tosend = wire
  /\ stdin_room = TRUE

FrameStep(t) ==
  \/ RunDispatch(t) \/ CallShutdown(t)
  \/ ShutdownLock(t) \/ ShutdownCancel(t)
  \/ RpcLoop(t) \/ RecvStep(t) \/ CbReturn(t) \/ RpcLock(t) \/ RpcClose(t)
  \/ HostYield(t)

NextFrame ==
  \/ \E t \in Tasks : FrameStep(t)
  \/ ChildWrite
  \/ ChildDiesWriting
  \/ \E b \in DiagBytes : ChildWriteErr(b, MaxDiag)
  \/ ChildExit

SpecFrame == InitFrame /\ [][NextFrame]_vars

\* The diagnostic capture buffer on its own: one run of the dispatch loop
\* over a child that writes diagnostic bytes of every content and no frame
InitDiag ==
  /\ InitState
  /\ codec = CodecIdle
  /\ wire = <<>>
  /\ tosend = <<>>
  /\ stdin_room = TRUE

NextDiag ==
  \/ RunDispatch(1)
  \/ RpcLoop(1) \/ RecvStep(1) \/ CbReturn(1) \/ RpcLock(1) \/ RpcClose(1)
  \/ \E b \in DiagBytesFull : ChildWriteErr(b, MaxErrBytes)
  \/ ChildExit

SpecDiag == InitDiag /\ [][NextDiag]_vars

\* The header of a frame: one run of the dispatch loop over a child that
\* writes a frame whose length field may be no number, and diagnostic bytes
\* in between
InitHeader ==
  /\ InitState
  /\ codec = CodecIdle
  /\ wire \in RawStreams
  /\ tosend = wire
  /\ stdin_room = TRUE

NextHeader ==
  \/ RunDispatch(1)
  \/ RpcLoop(1) \/ RecvStep(1) \/ CbReturn(1) \/ RpcLock(1) \/ RpcClose(1)
  \/ ChildWriteRaw
  \/ \E b \in DiagBytesApart : ChildWriteErr(b, MaxHdrDiag)
  \/ ChildExit

SpecHeader == InitHeader /\ [][NextHeader]_vars

\* The codec on its own: json-serialize (lisp_to_json, json_dumps) of a
\* value, then json-parse-string (json_loads, json_to_lisp) of the text,
\* under one configuration
SymKeys == {LSym(<<"a">>), LSym(<<":", "a">>), LSym(<<":", "b">>)}
StrKeys == {LStr(<<"a">>), LStr(<<"b">>)}
CodecAtoms == {LInt(1), LStr(<<EACUTE>>), Qt, QCnull, QCfalse, Qnil}
CodecLeaves == {LInt(1), LInt(2), Qnil}

\* the sequences of up to MaxMembers elements of a set
SeqsOver(S) == UNION {[1..n -> S] : n \in 0..MaxMembers}

RECURSIVE Flatten(_)
Flatten(pairs) ==
  IF pairs = <<>> THEN <<>>
  ELSE <<Head(pairs)[1], Head(pairs)[2]>> \o Flatten(Tail(pairs))

Alists(vals) ==
  {LList([i \in 1..Len(f) |-> LCons(f[i][1], f[i][2])]) :
     f \in SeqsOver(SymKeys \X vals)}
Plists(vals) == {LList(Flatten(f)) : f \in SeqsOver(SymKeys \X vals)}
Hashes(vals) == {LHash(f) : f \in SeqsOver(StrKeys \X vals)}
Vectors(vals) == {LVec(f) : f \in SeqsOver(vals)}

\* containers that hold a container
SmallContainers ==
  {LVec(<<LInt(1)>>), LVec(<<>>), LHash(<<>>),
   LHash(<< <<LStr(<<"a">>), LInt(1)>> >>),
   LList(<<LCons(LSym(<<"a">>), LInt(1))>>),
   LList(<<LSym(<<":", "a">>), LInt(1)>>)}
Nested ==
  {LVec(<<c>>) : c \in SmallContainers}
  \cup {LHash(<< <<LStr(<<"a">>), c>> >>) : c \in SmallContainers}
  \cup {LList(<<LCons(LSym(<<"a">>), c)>>) : c \in SmallContainers}
  \cup {LList(<<LSym(<<":", "a">>), c>>) : c \in SmallContainers}

CodecValues ==
  CodecAtoms \cup Alists(CodecLeaves) \cup Plists(CodecLeaves)
  \cup Hashes(CodecLeaves) \cup Vectors(CodecLeaves) \cup Nested

\* json_parse_args, lines 518-561: the configurations a caller can choose
CodecConfs ==
  {Conf(ot, at, n, f) :
     ot \in {json_object_hashtable, json_object_alist, json_object_plist},
     at \in {json_array_array, json_array_list},
     n \in {QCnull, Qnil}, f \in {QCfalse, Qnil}}

InitCodec ==
  /\ InitState
  /\ wire = <<>>
  /\ tosend = <<>>
  /\ stdin_room = TRUE
  /\ codec \in {[stage |-> "value", lisp |-> v, conf |-> c, json |-> NOJSON,
                  text |-> <<>>, back |-> Qnil] :
                   v \in CodecValues, c \in CodecConfs}

\* Fjson_serialize, lines 633: lisp_to_json (args[0], &conf)
CodecEncode ==
  /\ codec.stage = "value"
  /\ LET j == lisp_to_json(codec.lisp, codec.conf)
     IN codec' = [codec EXCEPT !.json = j,
                               !.stage = IF IsSignal(j) THEN "signal"
                                         ELSE "json"]
  /\ UNCHANGED sessionVars

\* Fjson_serialize: json_dumps (json, JSON_COMPACT | JSON_ENCODE_ANY)
CodecDump ==
  /\ codec.stage = "json"
  /\ codec' = [codec EXCEPT !.text = json_dumps(codec.json), !.stage = "text"]
  /\ UNCHANGED sessionVars

\* Fjson_parse_string, lines 975-978: json_loads
CodecLoad ==
  /\ codec.stage = "text"
  /\ LET j == json_loads(codec.text)
     IN codec' = [codec EXCEPT !.json = j,
                               !.stage = IF j = NOJSON THEN "signal"
                                         ELSE "parsed"]
  /\ UNCHANGED sessionVars

\* Fjson_parse_string: json_to_lisp (object, &conf)
CodecDecode ==
  /\ codec.stage = "parsed"
  /\ codec' = [codec EXCEPT !.back = json_to_lisp(codec.json, codec.conf),
                            !.stage = "back"]
  /\ UNCHANGED sessionVars

NextCodec == CodecEncode \/ CodecDump \/ CodecLoad \/ CodecDecode

SpecCodec == InitCodec /\ [][NextCodec]_vars

\* The send path: json-rpc-send of every kind of value and
\* json-rpc-shutdown from all the threads, over a child that may or may not
\* read its input and may exit
SendStep(t) ==
  \/ \E v \in SendValuesFull : CallSend(t, v)
  \/ \E v \in SendValuesFull : SendSignals(t, v)
  \/ SendLock(t) \/ SendIO(t) \/ SendReturn(t)
  \/ CallShutdown(t) \/ ShutdownLock(t) \/ ShutdownCancel(t)
  \/ HostYield(t)

NextSend ==
  \/ \E t \in Tasks : SendStep(t)
  \/ ChildExit

SpecSend == Init /\ [][NextSend]_vars

----------------------------------------------------------------------------
(* Properties *)

EofCount(q) == Cardinality({i \in 1..Len(q) : q[i] = EOF})
IsMsg(e) == e[1] = "msg"
MsgsOf(q) == SelectSeq(q, IsMsg)
WireMsgs == [i \in 1..Len(wire) |-> Msg(LInt(WireValue(i)))]
LastBytes(q, n) == SubSeq(q, Len(q) - n + 1, Len(q))

\* C1: over the whole session, whatever calls are made, the handler gets
\* the end-of-session delivery once and nothing after it: an end-of-session
\* delivery is always the last delivery made.
C1_EndOfSessionOnce ==
  \A i \in 1..Len(delivered) : delivered[i] = EOF => i = Len(delivered)

\* C2: the handle is closed exactly once: never more than once, and once
\* the dispatch loop has finished its teardown and returned, the handle has
\* been closed once and is the sentinel.
C2_ClosedExactlyOnce ==
  [][/\ closes' <= 1
     /\ \A t \in Tasks :
          (pc[t] \in {"rpc_lock", "rpc_close"} /\ pc'[t] = "idle")
             => (closes' = 1 /\ handle' = NULL)]_vars

\* C3: when the child wrote all its frames and a run of the dispatch loop
\* has delivered end-of-session, every framed value was delivered once, in
\* order, whenever the child's liveness turned false.
C3_AllFramesDelivered ==
  (rpc_calls = 1 /\ tosend = <<>> /\ EofCount(delivered) > 0)
     => MsgsOf(delivered) = WireMsgs

\* C4: at every point the messages handed to the handler are a prefix of the
\* framed values in wire order, one call per frame.
C4_DeliveredIsPrefix ==
  LET m == MsgsOf(delivered)
  IN /\ Len(m) <= Len(wire)
     /\ \A i \in 1..Len(m) : m[i] = WireMsgs[i]

C4_Witness ==
  /\ Len(delivered) >= 2
  /\ delivered[1] = Msg(LInt(WireValue(1)))
  /\ delivered[2] = Msg(LInt(WireValue(2)))

\* C5: a receive step that finds the stream ended (no byte, child not alive)
\* inside a frame sets the termination flag and makes no delivery; once
\* the flag is set the only delivery that follows is end-of-session, and a
\* session with one run of the loop gets it once.
C5_PrematureEnd ==
  [][/\ \A t \in Tasks :
          (pc[t] \in RdPhases /\ pc'[t] = "cb_glock" /\ pipe = <<>>)
             => (done' /\ delivered' = delivered)
     /\ done => delivered' \in {delivered, Append(delivered, EOF)}
     /\ (done' /\ rpc_calls' <= 1) => EofCount(delivered') <= 1]_vars

C5_Witness ==
  /\ done /\ ~alive /\ tosend # <<>> /\ pipe = <<>>
  /\ delivered # <<>> /\ delivered[Len(delivered)] = EOF

\* C6: the write cursor of the diagnostic buffer is below the capacity after
\* every receive step, so that the next receive is offered at least a byte.
C6_CursorBelowCapacity ==
  /\ 0 <= error_buffer_read
  /\ error_buffer_read < ERROR_BUFFER_SIZE
  /\ ERROR_BUFFER_SIZE - error_buffer_read >= 1

C6_Witness ==
  /\ overflows > 0
  /\ error_buffer_read = ERROR_BUFFER_SIZE \div 2
  /\ Len(diag_hist) = ERROR_BUFFER_SIZE

\* C7: after an overflow of the diagnostic buffer, what is read back is the
\* most recently written bytes (the latest half at the overflow, then what
\* was appended at the midpoint), whatever the bytes are.
C7_KeepsRecentHalf ==
  overflows > 0 =>
     Fjson_rpc_stderr = LastBytes(diag_hist, error_buffer_read)

\* C8: when request-shutdown is under way while a send is inside the send
\* primitive, holding the session mutex, that send eventually returns to its
\* caller (as long as the process lives).
C8_CancelledSendReturns ==
  \A t \in Tasks :
     (pc[t] = "send_io" /\ \E u \in Tasks : pc[u] = "sd_lock")
        ~> (pc[t] = "idle" \/ crashed)

C8_Witness ==
  /\ cancel_send /\ alive /\ ~stdin_room
  /\ last_send = "failed" /\ child_in # <<>>
  /\ \A t \in Tasks : pc[t] # "send_io"

MxWait == {"send_lock", "sd_lock", "rpc_lock"}
GlWait == {"send_glock", "cb_glock"}

\* C9: no deadlock: no task waits for the global lock holding the session
\* mutex while another waits for the mutex holding the global lock, and
\* every wait for the mutex or for the global lock ends.
C9_NoDeadlock ==
  /\ [](~ \E t, u \in Tasks :
            /\ pc[t] \in GlWait /\ handle_mx = t
            /\ pc[u] \in MxWait /\ global_lock = u)
  /\ \A t \in Tasks : (pc[t] \in MxWait) ~> (pc[t] \notin MxWait \/ crashed)
  /\ \A t \in Tasks : (pc[t] \in GlWait) ~> (pc[t] \notin GlWait \/ crashed)

C9_Witness ==
  \E t, u \in Tasks :
     /\ pc[t] = "send_glock" /\ send_res[t] = -1
     /\ pc[u] = "rpc_lock" /\ global_lock = u /\ handle_mx = NoTask
     /\ cancel_send

\* C10: a request-shutdown made again, or made after the dispatch loop
\* closed the handle, completes normally: its step trips no assertion, does
\* not end the process and does not close the handle.
C10_ShutdownIdempotent ==
  [][\A t \in Tasks :
       (pc[t] \in {"sd_lock", "sd_cancel"} /\ pc'[t] # pc[t])
          => (asserted' = asserted /\ ~crashed' /\ closes' = closes)]_vars

\* C11: a send whose attempt on the session mutex ends because the mutex is
\* held (timeout) or because the handle is the closed sentinel goes on to
\* return a failure: the process lives, the result is a failure, the send
\* primitive is not called and no byte reaches the child's input.
C11_SendRefused ==
  [][\A t \in Tasks :
       (/\ pc[t] = "send_lock" /\ pc'[t] # "send_lock"
        /\ (handle_mx # NoTask \/ handle = NULL))
          => (/\ ~crashed'
              /\ pc'[t] = "send_glock" /\ send_res'[t] < 0
              /\ child_in' = child_in)]_vars

\* the bytes a send step wrote to the child's input
Written == SubSeq(child_in', Len(child_in) + 1, Len(child_in'))

\* C12: the step that calls the send primitive leaves a success result
\* exactly when the primitive took the whole framed buffer (whether or not a
\* cancellation is pending); the caller is told success exactly for that
\* result; a send calls the primitive at most once, so that nothing is
\* retried.
C12_SuccessIffFullCount ==
  [][\A t \in Tasks :
       /\ (pc[t] = "send_io" /\ pc'[t] # "send_io")
            => /\ (send_res'[t] = 0) <=> (Len(Written) = Len(last_buf'))
               /\ send_calls'[t] = 1
       /\ (pc[t] = "send_glock" /\ pc'[t] = "idle")
            => /\ (last_send' = "ok") <=> (send_res[t] = 0)
               /\ (last_send' = "failed") <=> (send_res[t] # 0)
               /\ send_calls[t] <= 1
       /\ (pc[t] # "send_io" \/ pc'[t] = "send_io")
            => (pc[t] = pc'[t] \/ child_in' = child_in)]_vars

C12_Witness ==
  /\ cancel_send /\ last_send = "failed"
  /\ child_in # <<>> /\ Len(child_in) < Len(last_buf)
  /\ \A t \in Tasks : pc[t] = "idle"

ContentLengthColonSpace ==
  <<"C", "o", "n", "t", "e", "n", "t", "-", "L", "e", "n", "g", "t",
    "h", ":", " ">>

CrLfCrLf == <<CR, LF, CR, LF>>

\* the header "Content-Length: N\r\n\r\n" in front of the payload, N being
\* the decimal number of the payload's bytes
IsFrameOf(buf, payload) ==
  \E k \in 1..Len(buf) :
     /\ SubSeq(buf, 1, Len(ContentLengthColonSpace)) = ContentLengthColonSpace
     /\ k > Len(ContentLengthColonSpace)
     /\ \A i \in (Len(ContentLengthColonSpace) + 1)..k : buf[i] \in DigitSet
     /\ DigitsVal(SubSeq(buf, Len(ContentLengthColonSpace) + 1, k), 0)
          = Len(payload)
     /\ SubSeq(buf, k + 1, k + 4) = CrLfCrLf
     /\ Drop(buf, k + 4) = payload

\* C13: the buffer given to the send primitive is the header
\* "Content-Length: N\r\n\r\n" followed by the payload, N being the number
\* of bytes of the payload, and it is given whole in the one call the send
\* makes.
C13_FramedBuffer ==
  [][\A t \in Tasks :
       (pc[t] = "send_io" /\ pc'[t] # "send_io")
          => /\ IsFrameOf(last_buf', send_msg[t])
             /\ send_calls'[t] = 1
             /\ Written = SubSeq(last_buf', 1, Len(Written))]_vars

C13_Witness ==
  /\ last_send = "ok" /\ XC3 \in Range(last_buf)
  /\ child_in = last_buf

PingText ==
  <<"{", QUOTE, "i", "d", QUOTE, ":", "1", ",", QUOTE, "m", "e", "t",
    "h", "o", "d", QUOTE, ":", QUOTE, "p", "i", "n", "g", QUOTE, "}">>

PingWire26 ==
  <<"C", "o", "n", "t", "e", "n", "t", "-", "L", "e", "n", "g", "t",
    "h", ":", " ", "2", "6", CR, LF, CR, LF, "{", QUOTE, "i", "d",
    QUOTE, ":", "1", ",", QUOTE, "m", "e", "t", "h", "o", "d", QUOTE,
    ":", QUOTE, "p", "i", "n", "g", QUOTE, "}">>

PingWire24 ==
  <<"C", "o", "n", "t", "e", "n", "t", "-", "L", "e", "n", "g", "t",
    "h", ":", " ", "2", "4", CR, LF, CR, LF, "{", QUOTE, "i", "d",
    QUOTE, ":", "1", ",", QUOTE, "m", "e", "t", "h", "o", "d", QUOTE,
    ":", QUOTE, "p", "i", "n", "g", QUOTE, "}">>

EndsWith(s, x) == Len(s) >= Len(x) /\ Drop(s, Len(s) - Len(x)) = x

\* the one call made so far was a send of Ping that succeeded
PingSent ==
  /\ ncalls = 1 /\ last_send = "ok"
  /\ EndsWith(last_buf, json_dumps(lisp_to_json(Ping, DefaultConf)))

\* C14 as stated: sending {"id":1,"method":"ping"} on an open connection
\* writes Content-Length: 26, a blank line and the payload to the child's
\* input.
C14_PingWire26 == PingSent => child_in = PingWire26

\* C14 amended: sending {"id":1,"method":"ping"} on an open connection
\* writes Content-Length: 24, a blank line and the payload to the child's
\* input, 24 being the number of bytes of the payload.
C14_PingWire24 == PingSent => (child_in = PingWire24 /\ Len(PingText) = 24)

C14_Witness == PingSent /\ child_in = PingWire24

\* C16: a send whose value cannot be encoded is over in the step that
\* signals: the caller is back in Lisp, no task has moved towards the
\* session mutex, nothing was written to the child's input and neither the
\* termination flag nor the handle changed.
C16_EncodeFailure ==
  [][signalled' # signalled
       => /\ pc' = pc /\ \E t \in Tasks : pc'[t] = "idle" /\ global_lock' = t
          /\ handle_mx' = handle_mx
          /\ child_in' = child_in /\ last_buf' = last_buf
          /\ done' = done /\ handle' = handle]_vars

C16_Witness ==
  /\ signalled > 0 /\ handle_mx # NoTask
  /\ \E t \in Tasks : pc[t] = "send_io"

\* the text between the marker and the delimiter is a decimal number
IsDecimal(hdr) ==
  LET r == SkipSpace(hdr)
  IN r # <<>> /\ \A i \in 1..Len(r) : r[i] \in DigitSet

\* C15: the receive step that completes a header whose length field is no
\* decimal number (not numeric, empty, negative) ends the session: it sets
\* the termination flag, the process lives, and what follows is
\* end-of-session, not a decode error and more reading.
C15_BadLengthIsFatal ==
  [][\A t \in Tasks :
       (/\ pc[t] = "rd_header" /\ pc'[t] # "rd_header" /\ pipe # <<>>
        /\ ~IsDecimal(SubSeq(data[t], 1, Len(data[t]) - Len(DELIM) + 1)))
          => (done' /\ ~crashed' /\ pc'[t] = "cb_glock")]_vars

\* C17: the steps of a send (refused, failed, partial or successful) and a
\* request-shutdown that gives up on the session mutex leave the
\* termination flag and the handle as they are, deliver nothing and move no
\* run of the dispatch loop.
C17_TransportErrorsFrame ==
  [][\A t \in Tasks :
       (\/ pc[t] \in {"send_lock", "send_io", "send_glock"} /\ pc'[t] # pc[t]
        \/ pc[t] = "sd_lock" /\ pc'[t] = "idle" /\ handle_mx # NoTask)
          => /\ done' = done /\ handle' = handle
             /\ delivered' = delivered /\ closes' = closes
             /\ \A u \in Tasks : pc[u] \in RpcPcs => pc'[u] = pc[u]]_vars

C17_Witness ==
  /\ last_send = "failed" /\ ~done /\ handle = HANDLE /\ delivered = <<>>
  /\ \E t \in Tasks : pc[t] \in RdPhases

\* C18: no byte of the diagnostic stream is among the bytes scanned for a
\* header or collected for a payload, and while fewer diagnostic bytes than
\* the capacity were received, what is read back is all of them in the
\* order of their arrival.
C18_DiagnosticsApart ==
  /\ \A t \in Tasks :
       DiagBytesApart \cap (Range(data[t]) \cup Range(msgbuf[t])) = {}
  /\ Len(diag_hist) < ERROR_BUFFER_SIZE => Fjson_rpc_stderr = diag_hist

C18_Witness ==
  /\ Len(diag_hist) = MaxHdrDiag /\ diag_hist[1] # diag_hist[2]
  /\ Fjson_rpc_stderr = diag_hist
  /\ delivered # <<>> /\ IsMsg(delivered[Len(delivered)])

Distinct(q) == \A i, j \in 1..Len(q) : i # j => q[i] # q[j]
IsKeyword(x) == x[1] = "sym" /\ Len(x[2]) > 1 /\ x[2][1] = ":"
IsAlist(v) == v[1] = "list" /\ v[2] # <<>> /\ CONSP(Head(v[2]))
IsPlist(v) == v[1] = "list" /\ v[2] # <<>> /\ ~CONSP(Head(v[2]))

\* the entries <<key, value>> of a plist with an even number of elements
PlistEntries(v) == [i \in 1..(Len(v[2]) \div 2) |-> <<v[2][2 * i - 1], v[2][2 * i]>>]
AlistEntries(v) == [i \in 1..Len(v[2]) |-> <<XCAR(v[2][i]), XCDR(v[2][i])>>]

\* a value that is in the shape the configuration decodes to: objects in
\* the configured representation, with distinct keys that are keywords in a
\* plist; arrays as vectors under the array option
RECURSIVE Canonical(_, _)
Canonical(v, conf) ==
  IF EQ(v, conf.null_object) \/ EQ(v, conf.false_object) \/ EQ(v, Qt)
  THEN TRUE
  ELSE IF INTEGERP(v) \/ STRINGP(v) THEN TRUE
  ELSE IF VECTORP(v)
  THEN /\ conf.array_type = json_array_array
       /\ \A i \in 1..Len(v[2]) : Canonical(v[2][i], conf)
  ELSE IF HASH_TABLE_P(v)
  THEN /\ conf.object_type = json_object_hashtable
       /\ \A i \in 1..Len(v[2]) : Canonical(v[2][i][2], conf)
  ELSE IF NILP(v)
  THEN conf.object_type \in {json_object_alist, json_object_plist}
  ELSE IF IsAlist(v)
  THEN /\ conf.object_type = json_object_alist
       /\ \A i \in 1..Len(v[2]) : v[2][i][1] = "cons"
       /\ Distinct([i \in 1..Len(v[2]) |-> AlistEntries(v)[i][1]])
       /\ \A i \in 1..Len(v[2]) : Canonical(AlistEntries(v)[i][2], conf)
  ELSE IF IsPlist(v)
  THEN /\ conf.object_type = json_object_plist
       /\ Len(v[2]) % 2 = 0
       /\ \A i \in 1..Len(PlistEntries(v)) : IsKeyword(PlistEntries(v)[i][1])
       /\ Distinct([i \in 1..Len(PlistEntries(v)) |-> PlistEntries(v)[i][1]])
       /\ \A i \in 1..Len(PlistEntries(v)) :
            Canonical(PlistEntries(v)[i][2], conf)
  ELSE FALSE

\* C19 as stated: for every value that can be encoded, and every
\* configuration, decoding the encoding gives back a value equal to it.
C19_RoundTrip == codec.stage = "back" => codec.back = codec.lisp

\* C19 amended: decoding the encoding gives back an equal value for every
\* value in the shape the configuration decodes to.
C19_RoundTripCanonical ==
  (codec.stage = "back" /\ Canonical(codec.lisp, codec.conf))
     => codec.back = codec.lisp

C19_Witness ==
  /\ codec.stage = "back" /\ Canonical(codec.lisp, codec.conf)
  /\ IsPlist(codec.lisp) /\ Len(codec.lisp[2]) = 4
  /\ codec.conf.null_object = Qnil /\ codec.back = codec.lisp

\* the keys of an object as lisp_to_json names its members
HashKeys(v) == [i \in 1..Len(v[2]) |-> json_encode(v[2][i][1][2])]
ListEntries(v) == IF IsAlist(v) THEN AlistEntries(v) ELSE PlistEntries(v)
ListKeys(v) ==
  [i \in 1..Len(ListEntries(v)) |->
     LET name == json_encode(SYMBOL_NAME(ListEntries(v)[i][1]))
     IN IF IsAlist(v) THEN name
        ELSE IF Len(name) > 1 /\ name[1] = ":" THEN Tail(name) ELSE name]
FirstOf(v, k) ==
  ListEntries(v)[CHOOSE i \in 1..Len(ListKeys(v)) :
                   /\ ListKeys(v)[i] = k
                   /\ \A j \in 1..(i - 1) : ListKeys(v)[j] # k][2]

\* C20: serializing a hashtable in which two keys have the same encoded
\* string fails with wrong-type-argument; serializing an alist or a plist
\* with a repeated key succeeds, and every member has the value of the
\* first entry of its key.
C20_DuplicateKeys ==
  codec.stage \in {"json", "signal"} =>
    /\ (HASH_TABLE_P(codec.lisp) /\ ~Distinct(HashKeys(codec.lisp)))
          => codec.json = WrongType
    /\ ((IsAlist(codec.lisp) \/ IsPlist(codec.lisp))
        /\ ~Distinct(ListKeys(codec.lisp)))
          => /\ codec.json[1] = "object"
             /\ Distinct([i \in 1..Len(codec.json[2]) |-> codec.json[2][i][1]])
             /\ \A i \in 1..Len(codec.json[2]) :
                  codec.json[2][i][2]
                    = lisp_to_json(FirstOf(codec.lisp, codec.json[2][i][1]),
                                   codec.conf)

C20_Witness ==
  /\ codec.stage = "json"
  /\ codec.lisp = LList(<<LCons(LSym(<<"a">>), LInt(1)),
                          LCons(LSym(<<"a">>), LInt(2))>>)
  /\ codec.json = JObj(<< <<(<<"a">>), JInt(1)>> >>)

\* C21: once request-shutdown is about to cancel a receive of the dispatch
\* loop that is in flight, and the child stays alive, the loop eventually
\* leaves the receive and goes to its end-of-session delivery.
C21_ShutdownEndsReceive ==
  (\E t, u \in Tasks : pc[t] \in RdPhases /\ pc[u] = "sd_cancel")
     ~> (~alive \/ \A t \in Tasks : pc[t] \notin RdPhases)

\* C22: a request-shutdown whose attempt on the session mutex fails because
\* the mutex is held does not return without having called cancelReceive.
C22_ShutdownCancelsAnyway ==
  [][\A t \in Tasks :
       (pc[t] = "sd_lock" /\ pc'[t] = "idle" /\ handle_mx # NoTask)
          => cancel_calls' > cancel_calls]_vars

\* C23: once the dispatch loop has reached its teardown, the handle is
\* eventually closed and replaced by the sentinel, also when the attempt on
\* the session mutex times out.
C23_TeardownCloses ==
  (\E t \in Tasks : pc[t] = "rpc_lock") ~> (handle = NULL \/ crashed)

\* C24: a task that stands in a primitive of the handle other than close
\* (receive, send, cancelReceive) holds the session mutex, and no receive
\* overlaps a send.
C24_PrimitivesUnderMutex ==
  /\ \A t \in Tasks :
       pc[t] \in RdPhases \cup {"send_io", "sd_cancel"} => handle_mx = t
  /\ ~ \E t, u \in Tasks : pc[t] \in RdPhases /\ pc[u] = "send_io"

\* C25: the termination flag and the send-cancellation flag are false when
\* the session is opened, and no step of any operation sets either back to
\* false once it is true.
C25_FlagsMonotonic ==
  /\ ~done /\ ~cancel_send
  /\ [][(done => done') /\ (cancel_send => cancel_send')]_vars

C25_Witness ==
  /\ done /\ cancel_send /\ last_send # "none" /\ ncalls = MaxCalls
  /\ \A t \in Tasks : pc[t] = "idle"

\* C26: the receive step that completes a payload takes exactly the N
\* payload bytes and leaves the termination flag alone, and when the payload
\* failed to decode the handler is then called once with the parse error,
\* the flag stays false and the loop goes on.
C26_DecodeErrorGoesOn ==
  [][\A t \in Tasks :
       /\ (pc[t] = "rd_payload" /\ pc'[t] = "cb_glock" /\ pipe # <<>>)
            => /\ done' = done
               /\ pipe = SubSeq(pipe, 1, has_to_read[t]) \o pipe'
               /\ ~done => message'
                     = json_loads(msgbuf[t] \o SubSeq(pipe, 1, has_to_read[t]))
       /\ (pc[t] = "cb_glock" /\ pc'[t] # "cb_glock" /\ ~done
           /\ message = NOJSON)
            => /\ delivered' = Append(delivered, ParseErr)
               /\ ~done' /\ pc'[t] = "rpc_loop"]_vars

C26_Witness ==
  /\ wire = <<RawFrame(<<" ", "1">>, BadPayload), FrameMsg(json_dumps(JInt(42)))>>
  /\ delivered = <<ParseErr, Msg(LInt(42))>>
  /\ ~done /\ pipe = <<>>

\* C27: the handle is closed only by a task that holds the session mutex,
\* after the end-of-session delivery, which is then the last delivery made;
\* the close sets the sentinel and delivers nothing.
C27_TeardownOrder ==
  [][closes' # closes
       => /\ delivered # <<>> /\ delivered[Len(delivered)] = EOF
          /\ delivered' = delivered
          /\ \E t \in Tasks : handle_mx = t /\ pc[t] = "rpc_close"
          /\ handle = HANDLE /\ handle' = NULL /\ handle_mx' = NoTask]_vars

C27_Witness ==
  /\ closes = 1 /\ handle = NULL /\ handle_mx = NoTask
  /\ Len(delivered) > 1 /\ delivered[Len(delivered)] = EOF
  /\ IsMsg(delivered[1])

\* the timeout of the lock attempt made at each position
TimeoutAt(p) == IF p = "send_lock" THEN SendTimeout ELSE ShutdownTimeout

\* C28: an attempt on the session mutex that gives up because the mutex is
\* held has waited for its timeout: 5 ms for a send, 1 s for
\* request-shutdown and for the teardown of the dispatch loop.
C28_LockWaits ==
  [][\A t \in Tasks :
       (pc[t] \in MxWait /\ pc'[t] # pc[t] /\ handle_mx # NoTask)
          => clock >= lock_since[t] + TimeoutAt(pc[t])]_vars

\* C29: the assertion of end_using_handle holds at every call: no call
\* finds the handle to be the sentinel.
C29_AssertionHolds == ~asserted

\* C30: no task stands before a call of a handle primitive that goes
\* through the sentinel: a liveness check, a receive or a close with the
\* handle closed.
C30_NoUseOfSentinel ==
  \A t \in Tasks :
     /\ (pc[t] = "rpc_loop" /\ ~done) => rpc_handle[t] # NULL
     /\ pc[t] \in RdPhases \cup {"rpc_close", "send_io", "sd_cancel"}
          => handle # NULL

\* C31: when the session state is finalized, the handle has been closed and
\* is the sentinel, whatever was called on the connection before.
C31_FreedAfterClose ==
  [][(\A t \in Tasks : pc'[t] = "freed") /\ (\E t \in Tasks : pc[t] # "freed")
       => (handle = NULL /\ closes = 1)]_vars

\* the frames of the values a send can encode, written by the header's text
SendFrames ==
  {ContentLengthColonSpace \o DecStr(Len(p)) \o CrLfCrLf \o p :
     p \in {json_dumps(lisp_to_json(v, DefaultConf)) :
              v \in {x \in SendValuesFull :
                       ~IsSignal(lisp_to_json(x, DefaultConf))}}}

IsProperPrefix(s, f) == Len(s) < Len(f) /\ s = SubSeq(f, 1, Len(s))

\* complete frames, then at most the beginning of one more
RECURSIVE FramesThenTail(_)
FramesThenTail(s) ==
  \/ s = <<>>
  \/ \E f \in SendFrames : IsProperPrefix(s, f)
  \/ \E f \in SendFrames : StartsWith(s, f) /\ FramesThenTail(Drop(s, Len(f)))

\* frames and beginnings of frames, one after the other
RECURSIVE FramePieces(_)
FramePieces(s) ==
  \/ s = <<>>
  \/ \E f \in SendFrames : \E n \in 1..Min(Len(f), Len(s)) :
        SubSeq(s, 1, n) = SubSeq(f, 1, n) /\ FramePieces(Drop(s, n))

\* C32 as stated: the bytes written to the child's input are complete
\* frames one after the other, and a frame that was written in part has
\* nothing after it.
C32_WholeFramesOnly == FramesThenTail(child_in)

\* C32 amended: the bytes written to the child's input are frames and
\* beginnings of frames one after the other, each written by one send while
\* it held the session mutex: no send writes inside the bytes of another.
C32_FramePieces ==
  /\ FramePieces(child_in)
  /\ \A t, u \in Tasks : (pc[t] = "send_io" /\ pc[u] = "send_io") => t = u

C32_Witness ==
  /\ \E f, g \in SendFrames :
        child_in = SubSeq(f, 1, Len(f) - 1) \o g
  /\ last_send = "ok"

\* C33: a task that is in a send (from its lock attempt to the end of the
\* send primitive) or in a receive of the dispatch loop does not hold the
\* host's global lock; the task that calls the handler, and the task whose
\* call returns to the host, holds it.
C33_GlobalLockAroundIO ==
  /\ [](\A t \in Tasks :
          pc[t] \in RdPhases \cup {"send_lock", "send_io", "send_glock",
                                    "cb_glock"}
             => global_lock # t)
  /\ [][/\ delivered' # delivered
           => \E t \in Tasks : pc'[t] # pc[t] /\ global_lock' = t
        /\ \A t \in Tasks :
             (pc[t] # "idle" /\ pc'[t] = "idle") => global_lock' = t]_vars

C33_Witness ==
  /\ \E t, u \in Tasks : pc[t] = "send_io" /\ pc[u] \in RdPhases
  /\ global_lock = NoTask /\ last_send = "failed"

\* C34: once run-dispatch has delivered end-of-session and closed the
\* handle, json-rpc-pid returns -1.
C34_PidAfterClose ==
  (closes > 0 /\ handle = NULL /\ EofCount(delivered) > 0)
     => Fjson_rpc_pid = -1

\* C35: a receive step of the scan for the marker or for the delimiter
\* stores its byte at an index below the capacity of the scan buffer.
C35_ScanIndexInBounds ==
  [][\A t \in Tasks :
       (pc[t] \in {"rd_marker", "rd_header"} /\ pipe' # pipe)
          => Len(data[t]) < BUFFER_SIZE]_vars

====
